---- MODULE Spec2Model ----
(***************************************************************************)
(* A model of the sd_formatter crate: the device-interface enumeration     *)
(* context (devset.rs), the interface record and its variable-length       *)
(* queries (devdata.rs), the typed property fetch (devdata/properties.rs)  *)
(* and the raw buffer allocator (lib.rs).                                  *)
(*                                                                         *)
(* The operating system (SetupAPI) is the environment: every OS call       *)
(* answers with a nondeterministic choice among the outcomes it can give.  *)
(* A panic (assert!, unwrap(), slice index out of range) is the result     *)
(* "fatal".                                                                *)
(***************************************************************************)
EXTENDS Integers, Sequences, FiniteSets, TLC

VARIABLES
    handle,     \* what SetupDiGetClassDevsW returned: "none" (not called), "valid", "invalid"
    set,        \* DevInterfaceSet: "none", "open", "failed" (no Self was made), "closed"
    closes,     \* number of SetupDiDestroyDeviceInfoList calls made on the handle
    gen,        \* number of enumerate() calls made on the set
    iter,       \* the iterator returned by enumerate(): [live, next, guid]
    polls,      \* the polls of the current iterator: <<[index, call, os, out]>>
    lastFetch,  \* the last DevInterfaceData::fetch call: [index, call, os, out]
    live,       \* how many DevInterfaceData records are in scope (they borrow the set)
    qpc,        \* position of the caller of the queries: "idle", "done"
    last,       \* the last query made on a record: [op, trace, raw, res]
    descriptor  \* the Property the caller holds: [held, pa, fetched]

vars == <<handle, set, closes, gen, iter, polls, lastFetch, live, qpc, last, descriptor>>

lifeVars == <<handle, set, closes, gen, iter, polls, lastFetch, live>>
queryVars == <<qpc, last, descriptor>>

-----------------------------------------------------------------------------
(* Bounds *)

\* polls made on one iterator, and the indices given to DevInterfaceData::fetch
MaxIndex == 3
\* enumerate() calls on one set
MaxEnum == 2
\* records held in scope at one time
MaxLive == 3

-----------------------------------------------------------------------------
(* Platform error codes (GetLastError), as names *)

NO_MORE_ITEMS == "ERROR_NO_MORE_ITEMS"
INSUFFICIENT_BUFFER == "ERROR_INSUFFICIENT_BUFFER"
\* two of the other codes the OS can give
ACCESS_DENIED == "ERROR_ACCESS_DENIED"
INVALID_DATA == "ERROR_INVALID_DATA"

OtherErrors == {ACCESS_DENIED, INVALID_DATA}

-----------------------------------------------------------------------------
(* Option / Result values *)

None == [t |-> "None"]
OkRec(r) == [t |-> "Ok", rec |-> r]
ErrEl(e) == [t |-> "Err", code |-> e]

\* What SetupDiEnumDeviceInterfaces answers: TRUE, or FALSE with a last error
EnumAnswers ==
    {[ret |-> TRUE, err |-> "none"]}
        \cup {[ret |-> FALSE, err |-> e] : e \in {NO_MORE_ITEMS} \cup OtherErrors}

\* What SetupDiGetClassDevsW answers: a handle, or INVALID_HANDLE_VALUE
OpenAnswers ==
    {[ok |-> TRUE, err |-> "none"]} \cup {[ok |-> FALSE, err |-> e] : e \in OtherErrors}

-----------------------------------------------------------------------------
(* devset.rs: the enumeration context *)

\* The interface class GUIDs the callers enumerate (main.rs GUIDS), as names
Guids == {"GUID_DEVINTERFACE_DISK", "GUID_DEVINTERFACE_VOLUME"}

\* size_of::<SP_DEVICE_INTERFACE_DATA>() on a 64-bit target: cbSize (4),
\* InterfaceClassGuid (16), Flags (4), Reserved (8)
INTERFACE_DATA_SIZE == 32

\* An SP_DEVICE_INTERFACE_DATA with cbSize primed and every other field holding
\* `fill`: "zero" for zeroed memory, "uninit" for memory never written
PrimedData(fill) ==
    [cbSize |-> INTERFACE_DATA_SIZE, InterfaceClassGuid |-> fill, Flags |-> fill,
     Reserved |-> fill]

\* DevInterfaceData::raw_zeroed: cbSize set, the rest from zeroed()
raw_zeroed == PrimedData("zero")

\* The arguments of one SetupDiEnumDeviceInterfaces call (DeviceInfoData is null)
EnumCall(h, g, i, data) == [handle |-> h, guid |-> g, index |-> i, data |-> data]
NoCall == EnumCall("none", "none", -1, PrimedData("zero"))

\* (mutant) the closure without its .or_else(): "no more items" is surfaced as an error
EnumClosureNoOrElse(os, r) ==
    IF os.ret THEN OkRec(r) ELSE ErrEl(os.err)

\* The closure of enumerate(): bool.then(Some(data)).ok_or_else(GetLastError)
\* .or_else(NO_MORE_ITEMS => Ok(None)).transpose(), an Option<Result<_, _>>
EnumClosure(os, r) ==
    IF os.ret THEN OkRec(r)
    ELSE IF os.err = NO_MORE_ITEMS THEN None
    ELSE ErrEl(os.err)

\* DevInterfaceSet::fetch: Self only when the handle is valid
Open ==
    /\ set = "none"
    /\ \E os \in OpenAnswers :
        /\ handle' = IF os.ok THEN "valid" ELSE "invalid"
        /\ set' = IF handle' # "invalid" THEN "open" ELSE "failed"
    /\ UNCHANGED <<closes, gen, iter, polls, lastFetch, live, qpc, last, descriptor>>

\* DevInterfaceSet::enumerate: zip(0.., repeat(raw_zeroed())).map_while(closure);
\* lazy, no OS call is made here
Enumerate ==
    /\ set = "open"
    /\ gen < MaxEnum
    /\ gen' = gen + 1
    /\ \E guid \in Guids : iter' = [live |-> TRUE, next |-> 0, guid |-> guid]
    /\ polls' = <<>>
    /\ UNCHANGED <<handle, set, closes, lastFetch, live, qpc, last, descriptor>>

\* (mutant) one descriptor kept across the polls instead of a clone of the zeroed
\* one: after a successful step it holds what the OS wrote
PollReusedData ==
    /\ set = "open"
    /\ iter.live
    /\ iter.next < MaxIndex
    /\ \E os \in EnumAnswers :
        LET i == iter.next
            out == EnumClosure(os, <<gen, i>>)
            data == IF Len(polls) > 0 /\ polls[Len(polls)].os.ret
                    THEN PrimedData("filled") ELSE raw_zeroed
        IN  /\ out.t = "Ok" => live < MaxLive
            /\ polls' = Append(polls,
                               [index |-> i,
                                call |-> EnumCall(handle, iter.guid, i, data),
                                os |-> os, out |-> out])
            /\ live' = IF out.t = "Ok" THEN live + 1 ELSE live
    /\ iter' = [iter EXCEPT !.next = @ + 1]
    /\ UNCHANGED <<handle, set, closes, gen, lastFetch, qpc, last, descriptor>>

\* Iterator::next on the MapWhile: takes the next (index, data) pair of the zip
\* and returns what the closure returns; MapWhile keeps no "finished" flag
Poll ==
    /\ set = "open"
    /\ iter.live
    /\ iter.next < MaxIndex
    /\ \E os \in EnumAnswers :
        LET i == iter.next
            out == EnumClosure(os, <<gen, i>>)
        IN  /\ out.t = "Ok" => live < MaxLive
            /\ polls' = Append(polls,
                               [index |-> i,
                                call |-> EnumCall(handle, iter.guid, i, raw_zeroed),
                                os |-> os, out |-> out])
            /\ live' = IF out.t = "Ok" THEN live + 1 ELSE live
    /\ iter' = [iter EXCEPT !.next = @ + 1]
    /\ UNCHANGED <<handle, set, closes, gen, lastFetch, qpc, last, descriptor>>

\* The iterator goes out of scope (its borrow of the set ends)
DropIter ==
    /\ iter.live
    /\ iter' = [iter EXCEPT !.live = FALSE]
    /\ UNCHANGED <<handle, set, closes, gen, polls, lastFetch, live, qpc, last, descriptor>>

\* devdata.rs DevInterfaceData::fetch(set, index, guid): one enumerate-step, on a
\* MaybeUninit descriptor of which only cbSize is written
FetchResult(os, r) ==
    IF os.ret THEN [t |-> "Ok", some |-> TRUE, rec |-> r]
    ELSE IF os.err = NO_MORE_ITEMS THEN [t |-> "Ok", some |-> FALSE]
    ELSE ErrEl(os.err)

DevFetch ==
    /\ set = "open"
    /\ \E index \in 0 .. MaxIndex - 1, os \in EnumAnswers :
        LET out == FetchResult(os, <<0, index>>)
            guid == "GUID_DEVINTERFACE_DISK"
        IN  /\ out.t = "Ok" /\ out.some => live < MaxLive
            /\ lastFetch' = [index |-> index,
                             call |-> EnumCall(handle, guid, index, PrimedData("uninit")),
                             os |-> os, out |-> out]
            /\ live' = IF out.t = "Ok" /\ out.some THEN live + 1 ELSE live
    /\ UNCHANGED <<handle, set, closes, gen, iter, polls, qpc, last, descriptor>>

\* A record goes out of scope; it has no Drop of its own
DropRecord ==
    /\ live > 0
    /\ live' = live - 1
    /\ UNCHANGED <<handle, set, closes, gen, iter, polls, lastFetch, qpc, last, descriptor>>

\* (mutant) records that do not borrow the set: it can be dropped before them
DropSetUnborrowed ==
    /\ set = "open"
    /\ closes' = closes + 1
    /\ set' = "closed"
    /\ UNCHANGED <<handle, gen, iter, polls, lastFetch, live, qpc, last, descriptor>>

\* Drop for DevInterfaceSet: one SetupDiDestroyDeviceInfoList(self.handle).
\* The set is dropped when its scope ends, which the borrow checker allows only
\* once every PhantomData<&'a DevInterfaceSet> borrow (records, iterator) is gone.
DropSet ==
    /\ set = "open"
    /\ live = 0
    /\ ~iter.live
    /\ closes' = closes + 1
    /\ set' = "closed"
    /\ UNCHANGED <<handle, gen, iter, polls, lastFetch, live, qpc, last, descriptor>>

NoFetch ==
    [index |-> -1, call |-> NoCall, os |-> [ret |-> FALSE, err |-> "none"], out |-> None]
NoQuery == [op |-> "none"]
NoProp == [held |-> FALSE]

Init ==
    /\ handle = "none"
    /\ set = "none"
    /\ closes = 0
    /\ gen = 0
    /\ iter = [live |-> FALSE, next |-> 0, guid |-> "none"]
    /\ polls = <<>>
    /\ lastFetch = NoFetch
    /\ live = 0
    /\ qpc = "idle"
    /\ last = NoQuery
    /\ descriptor = NoProp

Next ==
    \/ Open
    \/ Enumerate
    \/ Poll
    \/ DropIter
    \/ DevFetch
    \/ DropRecord
    \/ DropSet

Spec == Init /\ [][Next]_vars

-----------------------------------------------------------------------------
(* Queries on a record: bounds and the answers of the OS *)

\* largest size (bytes, or keys for the key list) the OS reports for a value
MaxSize == 17

\* winapi devpropdef: DEVPROP_TYPE_*, DEVPROP_TYPEMOD_*, DEVPROP_MASK_*
DEVPROP_TYPE_EMPTY == 0
DEVPROP_TYPE_NULL == 1
DEVPROP_TYPE_SBYTE == 2
DEVPROP_TYPE_BYTE == 3
DEVPROP_TYPE_INT16 == 4
DEVPROP_TYPE_UINT16 == 5
DEVPROP_TYPE_INT32 == 6
DEVPROP_TYPE_UINT32 == 7
DEVPROP_TYPE_INT64 == 8
DEVPROP_TYPE_UINT64 == 9
DEVPROP_TYPE_FLOAT == 10
DEVPROP_TYPE_DOUBLE == 11
DEVPROP_TYPE_GUID == 13
DEVPROP_TYPE_FILETIME == 16
DEVPROP_TYPE_BOOLEAN == 17
DEVPROP_TYPE_STRING == 18
DEVPROP_TYPEMOD_ARRAY == 4096
DEVPROP_TYPEMOD_LIST == 8192
DEVPROP_MASK_TYPE == 4095
DEVPROP_MASK_TYPEMOD == 61440
DEVPROP_TYPE_BINARY == DEVPROP_TYPEMOD_ARRAY + DEVPROP_TYPE_BYTE
SBYTE_ARRAY == DEVPROP_TYPEMOD_ARRAY + DEVPROP_TYPE_SBYTE
INT16_ARRAY == DEVPROP_TYPEMOD_ARRAY + DEVPROP_TYPE_INT16
UINT16_ARRAY == DEVPROP_TYPEMOD_ARRAY + DEVPROP_TYPE_UINT16
INT32_ARRAY == DEVPROP_TYPEMOD_ARRAY + DEVPROP_TYPE_INT32
UINT32_ARRAY == DEVPROP_TYPEMOD_ARRAY + DEVPROP_TYPE_UINT32
INT64_ARRAY == DEVPROP_TYPEMOD_ARRAY + DEVPROP_TYPE_INT64
UINT64_ARRAY == DEVPROP_TYPEMOD_ARRAY + DEVPROP_TYPE_UINT64
FLOAT_ARRAY == DEVPROP_TYPEMOD_ARRAY + DEVPROP_TYPE_FLOAT
DOUBLE_ARRAY == DEVPROP_TYPEMOD_ARRAY + DEVPROP_TYPE_DOUBLE
BOOLEAN_ARRAY == DEVPROP_TYPEMOD_ARRAY + DEVPROP_TYPE_BOOLEAN
GUID_ARRAY == DEVPROP_TYPEMOD_ARRAY + DEVPROP_TYPE_GUID
\* DEVPROP_TRUE, a DEVPROP_BOOLEAN (CHAR): -1
DEVPROP_TRUE == -1

ScalarTags ==
    {DEVPROP_TYPE_EMPTY, DEVPROP_TYPE_NULL, DEVPROP_TYPE_SBYTE, DEVPROP_TYPE_BYTE,
     DEVPROP_TYPE_INT16, DEVPROP_TYPE_UINT16, DEVPROP_TYPE_INT32, DEVPROP_TYPE_UINT32,
     DEVPROP_TYPE_INT64, DEVPROP_TYPE_UINT64, DEVPROP_TYPE_FLOAT, DEVPROP_TYPE_DOUBLE,
     DEVPROP_TYPE_GUID, DEVPROP_TYPE_BOOLEAN}
ArrayTags ==
    {SBYTE_ARRAY, INT16_ARRAY, UINT16_ARRAY, INT32_ARRAY, UINT32_ARRAY,
     INT64_ARRAY, UINT64_ARRAY, FLOAT_ARRAY, DOUBLE_ARRAY, BOOLEAN_ARRAY, GUID_ARRAY}
\* the tags fetch_property matches
TableTags == ScalarTags \cup ArrayTags \cup {DEVPROP_TYPE_BINARY, DEVPROP_TYPE_STRING}
\* a DEVPROPTYPE (ULONG) with a bit set above both masks: 0x00010007
WideTag == 65536 + DEVPROP_TYPE_UINT32
\* tags outside the table: 0xFFFF, a scalar the table lacks, known scalars with a
\* modifier the table does not list, and a tag wider than 16 bits
ForeignTags ==
    {65535, WideTag, DEVPROP_TYPE_FILETIME, DEVPROP_TYPEMOD_ARRAY + DEVPROP_TYPE_STRING,
     DEVPROP_TYPEMOD_LIST + DEVPROP_TYPE_STRING,
     DEVPROP_TYPEMOD_ARRAY + DEVPROP_TYPE_EMPTY,
     DEVPROP_TYPEMOD_LIST + DEVPROP_TYPE_UINT32}
Tags == TableTags \cup ForeignTags
\* the tags the OS may report at the fetch instead of the probed one
ChangedTags == {DEVPROP_TYPE_UINT32, DEVPROP_TYPE_STRING}

\* the byte patterns the OS fills a buffer with (repeated to the buffer's length)
Patterns ==
    << <<0>>, <<255>>, <<1, 0>>, <<255, 0, 255>>, <<42, 0, 0, 0>>,
       <<65, 0, 66, 0, 0, 0>>, <<0, 216>>,
       <<1, 2, 3, 4, 5, 6, 7, 8, 9, 10, 11, 12, 13, 14, 15, 128>> >>

Fill(p, n) == [i \in 1 .. n |-> Patterns[p][((i - 1) % Len(Patterns[p])) + 1]]

Sizes == 0 .. MaxSize

NoAnswer == [ret |-> FALSE, err |-> "none", ty |-> 0, size |-> 0, raw |-> <<>>]

\* The answers to a probe (null buffer, size 0): success, a platform error, or
\* ERROR_INSUFFICIENT_BUFFER with the required size (and the property's tag)
ProbeAnswers(tags) ==
    {[ret |-> TRUE, err |-> "none", ty |-> 0, size |-> 0, raw |-> <<>>]}
        \cup {[ret |-> FALSE, err |-> e, ty |-> 0, size |-> 0, raw |-> <<>>] :
                e \in OtherErrors}
        \cup {[ret |-> FALSE, err |-> INSUFFICIENT_BUFFER, ty |-> t, size |-> n,
               raw |-> <<>>] : t \in tags, n \in Sizes}

\* The answers to a fetch with a buffer of n units: a failure, or success with
\* one of the tags, a size and the buffer filled
FetchAnswers(n, tags) ==
    {[ret |-> FALSE, err |-> e, ty |-> 0, size |-> 0, raw |-> <<>>] :
        e \in OtherErrors \cup {INSUFFICIENT_BUFFER}}
        \cup {[ret |-> TRUE, err |-> "none", ty |-> t2, size |-> n2, raw |-> Fill(p, n)] :
                t2 \in tags,
                n2 \in {n, n + 1} \cup (IF n > 0 THEN {n - 1} ELSE {}),
                p \in 1 .. Len(Patterns)}

(* Results: Ok(value), Err(code), or a panic *)
Fatal == [st |-> "fatal"]
Err(e) == [st |-> "err", code |-> e]
Ok(v) == [st |-> "ok", val |-> v]

(* The OS calls and allocations an operation makes, in order *)
ProbeEv(fn) == [ev |-> "probe", fn |-> fn, buf |-> -1, size |-> 0, align |-> 0]
AllocEv(fn, n, a) == [ev |-> "alloc", fn |-> fn, buf |-> n, size |-> n, align |-> a]
FetchEv(fn, n, arg) == [ev |-> "fetch", fn |-> fn, buf |-> n, size |-> arg, align |-> 0]

\* What an operation leaves: its name, the type parameter, the OS answers it
\* read, the calls it made and its result
Outcome(op, ty, pa, fa, trace, res) ==
    [op |-> op, T |-> ty, pa |-> pa, fa |-> fa, trace |-> trace, res |-> res]

-----------------------------------------------------------------------------
(* lib.rs: the raw buffer allocator *)

IsPowerOfTwo(a) == a \in {1, 2, 4, 8, 16, 32, 64}

\* (mutant) the size rounded up to the alignment, as Layout::pad_to_align would
alloc_slice_padded(size, align, mem) ==
    IF IsPowerOfTwo(align) /\ mem = "ok"
    THEN [ok |-> TRUE, len |-> ((size + align - 1) \div align) * align]
    ELSE [ok |-> FALSE, len |-> 0]

\* (mutant) no check of the alignment: Layout::from_size_align_unchecked
alloc_slice_unchecked(size, align, mem) ==
    IF mem = "oom" THEN [ok |-> FALSE, len |-> 0] ELSE [ok |-> TRUE, len |-> size]

\* what the global allocator does with a request: a region, or a null pointer
Memory == {"ok", "oom"}

\* alloc_slice_with_align(size: NonZeroUsize, align): Layout::from_size_align
\* .unwrap() panics unless align is a power of two (the sizes here are far below
\* isize::MAX); a null pointer from alloc() ends in handle_alloc_error; else the
\* slice has `size` bytes
alloc_slice_with_align(size, align, mem) ==
    IF ~IsPowerOfTwo(align) THEN [ok |-> FALSE, len |-> 0]
    ELSE IF mem = "oom" THEN [ok |-> FALSE, len |-> 0]
    ELSE [ok |-> TRUE, len |-> size]

\* the alignments a caller in the crate may ask for
Aligns == {0, 1, 2, 3, 4, 6, 8, 16}

\* A call of the allocator by code of the crate
AllocSlice ==
    /\ qpc = "idle"
    /\ \E size \in 1 .. MaxSize, align \in Aligns, mem \in Memory :
        LET got == alloc_slice_with_align(size, align, mem)
        IN  last' = Outcome("alloc_slice_with_align", "", NoAnswer, NoAnswer,
                            <<AllocEv("alloc_slice_with_align", size, align)>>,
                            IF got.ok THEN Ok([k |-> "Region", v |-> got.len]) ELSE Fatal)
    /\ qpc' = "done"
    /\ descriptor' = NoProp
    /\ UNCHANGED lifeVars

-----------------------------------------------------------------------------
(* devdata.rs: path and property keys *)

\* size_of::<SP_DEVICE_INTERFACE_DETAIL_DATA_W>(), its alignment, and
\* offset_of!(Data, DevicePath)
DETAIL_SIZE == 8
DETAIL_ALIGN == 4
DEVICE_PATH_OFFSET == 4

\* Vec::drain(..n) then the rest: panics when n > len
DrainFront(v, n) ==
    IF n > Len(v) THEN [ok |-> FALSE, v |-> <<>>]
    ELSE [ok |-> TRUE, v |-> SubSeq(v, n + 1, Len(v))]

\* DevInterfaceData::fetch_path. dbg: built with debug assertions; ub: what
\* writing cbSize past a buffer shorter than the field does ("crash" or "go on")
fetch_path(pa, fa, dbg, ub, mem) ==
    LET fn == "SetupDiGetDeviceInterfaceDetailW"
        size == pa.size
        t1 == <<ProbeEv(fn)>>
        t2 == Append(t1, AllocEv("alloc_slice_with_align", size, DETAIL_ALIGN))
        raw == alloc_slice_with_align(size, DETAIL_ALIGN, mem)
        t3 == Append(t2, FetchEv(fn, raw.len, size))
        path == DrainFront(fa.raw, DEVICE_PATH_OFFSET)
    IN  IF pa.ret THEN Outcome("fetch_path", "", pa, NoAnswer, t1, Fatal)
        ELSE IF pa.err # INSUFFICIENT_BUFFER
            THEN Outcome("fetch_path", "", pa, NoAnswer, t1, Err(pa.err))
        ELSE IF dbg /\ size < DETAIL_SIZE
            THEN Outcome("fetch_path", "", pa, NoAnswer, t1, Fatal)
        ELSE IF size = 0 THEN Outcome("fetch_path", "", pa, NoAnswer, t1, Fatal)
        ELSE IF ~raw.ok
            THEN Outcome("fetch_path", "", pa, NoAnswer, t1, Fatal)
        ELSE IF size < DEVICE_PATH_OFFSET /\ ub = "crash"
            THEN Outcome("fetch_path", "", pa, NoAnswer, t2, Fatal)
        ELSE IF ~fa.ret THEN Outcome("fetch_path", "", pa, fa, t3, Err(fa.err))
        ELSE IF size # fa.size THEN Outcome("fetch_path", "", pa, fa, t3, Fatal)
        ELSE IF ~path.ok THEN Outcome("fetch_path", "", pa, fa, t3, Fatal)
        ELSE Outcome("fetch_path", "", pa, fa, t3, Ok([k |-> "Path", v |-> path.v]))

\* (mutant) every probe outcome other than ERROR_INSUFFICIENT_BUFFER panics
fetch_property_keysProbeFatal(pa, fa) ==
    LET fn == "SetupDiGetDeviceInterfacePropertyKeys"
        size == pa.size
        t1 == <<ProbeEv(fn)>>
        t2 == Append(t1, AllocEv("Box::new_uninit_slice", size, 4))
        t3 == Append(t2, FetchEv(fn, size, size))
    IN  IF pa.ret \/ pa.err # INSUFFICIENT_BUFFER
            THEN Outcome("fetch_property_keys", "", pa, NoAnswer, t1, Fatal)
        ELSE IF ~fa.ret THEN Outcome("fetch_property_keys", "", pa, fa, t3, Err(fa.err))
        ELSE IF size # fa.size THEN Outcome("fetch_property_keys", "", pa, fa, t3, Fatal)
        ELSE Outcome("fetch_property_keys", "", pa, fa, t3, Ok([k |-> "Keys", v |-> fa.raw]))

\* DevInterfaceData::fetch_property_keys; sizes count keys, and the buffer is
\* Box::new_uninit_slice(size)
fetch_property_keys(pa, fa) ==
    LET fn == "SetupDiGetDeviceInterfacePropertyKeys"
        size == pa.size
        t1 == <<ProbeEv(fn)>>
        t2 == Append(t1, AllocEv("Box::new_uninit_slice", size, 4))
        t3 == Append(t2, FetchEv(fn, size, size))
    IN  IF pa.ret THEN Outcome("fetch_property_keys", "", pa, NoAnswer, t1, Fatal)
        ELSE IF pa.err # INSUFFICIENT_BUFFER
            THEN Outcome("fetch_property_keys", "", pa, NoAnswer, t1, Err(pa.err))
        ELSE IF ~fa.ret THEN Outcome("fetch_property_keys", "", pa, fa, t3, Err(fa.err))
        ELSE IF size # fa.size THEN Outcome("fetch_property_keys", "", pa, fa, t3, Fatal)
        ELSE Outcome("fetch_property_keys", "", pa, fa, t3, Ok([k |-> "Keys", v |-> fa.raw]))

FetchPath ==
    /\ qpc = "idle"
    /\ \E pa \in ProbeAnswers({0}), dbg \in BOOLEAN, ub \in {"crash", "go on"},
          mem \in Memory :
        \E fa \in FetchAnswers(pa.size, {0}) :
            last' = fetch_path(pa, fa, dbg, ub, mem)
    /\ qpc' = "done"
    /\ descriptor' = NoProp
    /\ UNCHANGED lifeVars

\* size_of::<SP_DEVICE_INTERFACE_DETAIL_DATA_W>(): the structure is repr(packed)
\* on x86 (cbSize 4 + DevicePath 2) and padded to its alignment of 4 elsewhere
DetailSize(packed) == IF packed THEN DEVICE_PATH_OFFSET + 2 ELSE DETAIL_SIZE

\* devset.rs DevInterfaceData::fetch_path (the record enumerate() yields): the
\* buffer is vec![0u8; raw_size], viewed through align_to_mut as the detail
\* structure (`aligned`: the Vec's allocation is aligned for it); the fetch gives
\* no RequiredSize pointer; the front of size_of_val(details) -
\* size_of_val(&details.DevicePath) bytes is cut off
devset_fetch_path(pa, fa, packed, aligned) ==
    LET fn == "SetupDiGetDeviceInterfaceDetailW"
        raw_usize == pa.size
        fixed_size_part_size == DetailSize(packed) - 2
        t1 == <<ProbeEv(fn)>>
        t2 == Append(t1, AllocEv("vec!", raw_usize, 1))
        t3 == Append(t2, FetchEv(fn, raw_usize, raw_usize))
    IN  IF pa.ret THEN Outcome("devset_fetch_path", "", pa, NoAnswer, t1, Fatal)
        ELSE IF pa.err # INSUFFICIENT_BUFFER
            THEN Outcome("devset_fetch_path", "", pa, NoAnswer, t1, Err(pa.err))
        ELSE IF raw_usize < DetailSize(packed)
            THEN Outcome("devset_fetch_path", "", pa, NoAnswer, t1, Fatal)
        ELSE IF ~packed /\ ~aligned
            THEN Outcome("devset_fetch_path", "", pa, NoAnswer, t2, Fatal)
        ELSE IF ~fa.ret THEN Outcome("devset_fetch_path", "", pa, fa, t3, Err(fa.err))
        ELSE Outcome("devset_fetch_path", "", pa, fa, t3,
                     Ok([k |-> "Path",
                         v |-> SubSeq(fa.raw, fixed_size_part_size + 1, raw_usize)]))

DevsetFetchPath ==
    /\ qpc = "idle"
    /\ \E pa \in ProbeAnswers({0}), packed \in BOOLEAN, aligned \in BOOLEAN :
        \E fa \in FetchAnswers(pa.size, {0}) :
            last' = devset_fetch_path(pa, fa, packed, aligned)
    /\ qpc' = "done"
    /\ descriptor' = NoProp
    /\ UNCHANGED lifeVars

FetchPropertyKeys ==
    /\ qpc = "idle"
    /\ \E pa \in ProbeAnswers({0}) :
        \E fa \in FetchAnswers(pa.size, {0}) :
            last' = fetch_property_keys(pa, fa)
    /\ qpc' = "done"
    /\ descriptor' = NoProp
    /\ UNCHANGED lifeVars

-----------------------------------------------------------------------------
(* Fixed-width values. The targets of winapi are little-endian, so native-endian
   reads are little-endian. 8- and 16-bit values are numbers; 32- and 64-bit
   values (and float bit patterns) are their 16-bit limbs, least significant
   first; a GUID is its four fields. *)

Types ==
    {"i8", "u8", "i16", "u16", "i32", "u32", "i64", "u64", "f32", "f64", "GUID",
     "DEVPROP_BOOLEAN"}

\* core::mem::size_of::<T>()
SizeOf(T) ==
    CASE T \in {"i8", "u8", "DEVPROP_BOOLEAN"} -> 1
      [] T \in {"i16", "u16"} -> 2
      [] T \in {"i32", "u32", "f32"} -> 4
      [] T \in {"i64", "u64", "f64"} -> 8
      [] T = "GUID" -> 16

\* core::mem::align_of::<T>()
AlignOf(T) ==
    CASE T \in {"i8", "u8", "DEVPROP_BOOLEAN"} -> 1
      [] T \in {"i16", "u16"} -> 2
      [] T \in {"i32", "u32", "f32", "GUID"} -> 4
      [] T \in {"i64", "u64", "f64"} -> 8

\* `b as i8`
\* (mutant) the byte kept unsigned
AsU8(b) == b
AsI8(b) == IF b >= 128 THEN b - 256 ELSE b
AsI16(w) == IF w >= 32768 THEN w - 65536 ELSE w
U16At(v, i) == v[i] + 256 * v[i + 1]
\* the n/2 limbs of the n bytes of v from position i (1-based)
Limbs(v, i, n) == [j \in 1 .. n \div 2 |-> U16At(v, i + 2 * (j - 1))]

Panic == [ok |-> FALSE, v |-> 0]
Val(x) == [ok |-> TRUE, v |-> x]

\* The buffer of a fetch read as a T: the bytes of v are the value's memory
Transmute(T, v) ==
    CASE T = "u8" -> v[1]
      [] T \in {"i8", "DEVPROP_BOOLEAN"} -> AsI8(v[1])
      [] T = "u16" -> U16At(v, 1)
      [] T = "i16" -> AsI16(U16At(v, 1))
      [] T \in {"i32", "u32", "f32"} -> Limbs(v, 1, 4)
      [] T \in {"i64", "u64", "f64"} -> Limbs(v, 1, 8)
      [] T = "GUID" ->
            [Data1 |-> Limbs(v, 1, 4), Data2 |-> U16At(v, 5), Data3 |-> U16At(v, 7),
             Data4 |-> SubSeq(v, 9, 16)]

\* The closures of fetch_property_value: from_ne_bytes over v[0], v[1] or
\* v[0..n]; indexing past the slice panics
i16conv(v) == IF Len(v) < 2 THEN Panic ELSE Val(AsI16(U16At(v, 1)))
u16conv(v) == IF Len(v) < 2 THEN Panic ELSE Val(U16At(v, 1))
i32conv(v) == IF Len(v) < 4 THEN Panic ELSE Val(Limbs(v, 1, 4))
\* (mutant) u32::from_be_bytes
u32convBigEndian(v) ==
    IF Len(v) < 4 THEN Panic ELSE Val(<<v[4] + 256 * v[3], v[2] + 256 * v[1]>>)
u32conv(v) == IF Len(v) < 4 THEN Panic ELSE Val(Limbs(v, 1, 4))
i64conv(v) == IF Len(v) < 8 THEN Panic ELSE Val(Limbs(v, 1, 8))
u64conv(v) == IF Len(v) < 8 THEN Panic ELSE Val(Limbs(v, 1, 8))
f32conv(v) == IF Len(v) < 4 THEN Panic ELSE Val(Limbs(v, 1, 4))
f64conv(v) == IF Len(v) < 8 THEN Panic ELSE Val(Limbs(v, 1, 8))
\* (mutant) Data4 taken from the front of the buffer
guidconvData4Front(v) ==
    IF Len(v) < 16 THEN Panic
    ELSE Val([Data1 |-> u32conv(SubSeq(v, 1, 4)).v, Data2 |-> u16conv(SubSeq(v, 5, 6)).v,
              Data3 |-> u16conv(SubSeq(v, 7, 8)).v, Data4 |-> SubSeq(v, 1, 8)])
guidconv(v) ==
    IF Len(v) < 16 THEN Panic
    ELSE Val([Data1 |-> u32conv(SubSeq(v, 1, 4)).v, Data2 |-> u16conv(SubSeq(v, 5, 6)).v,
              Data3 |-> u16conv(SubSeq(v, 7, 8)).v, Data4 |-> SubSeq(v, 9, 16)])

\* the closure arrconv is given for the element type T
Conv(T, v) ==
    CASE T = "i16" -> i16conv(v)
      [] T = "u16" -> u16conv(v)
      [] T = "i32" -> i32conv(v)
      [] T = "u32" -> u32conv(v)
      [] T = "i64" -> i64conv(v)
      [] T = "u64" -> u64conv(v)
      [] T = "f32" -> f32conv(v)
      [] T = "f64" -> f64conv(v)
      [] T = "GUID" -> guidconv(v)

\* the chunk length arrconv gives chunks_exact: size_of::<T>() / 8
ArrconvChunk(T) == SizeOf(T) \div 8

\* arrconv: arr.chunks_exact(size_of::<T>() / 8).map(f).collect(); chunks_exact
\* panics on a chunk length of 0 and leaves a remainder out
arrconv(arr, T) ==
    LET chunk == ArrconvChunk(T)
        n == Len(arr) \div chunk
        cs == [i \in 1 .. n |-> Conv(T, SubSeq(arr, (i - 1) * chunk + 1, i * chunk))]
    IN  IF chunk = 0 THEN Panic
        ELSE IF \E i \in 1 .. n : ~cs[i].ok THEN Panic
        ELSE Val([i \in 1 .. n |-> cs[i].v])

\* UTF-16: a code unit sequence without unpaired surrogates
IsHigh(u) == u \in 55296 .. 56319
IsLow(u) == u \in 56320 .. 57343
ValidUtf16(u) ==
    \A i \in 1 .. Len(u) :
        /\ IsHigh(u[i]) => (i < Len(u) /\ IsLow(u[i + 1]))
        /\ IsLow(u[i]) => (i > 1 /\ IsHigh(u[i - 1]))

\* raw.align_to::<u16>().1 of a heap buffer: its whole u16 units
Units(raw) == [i \in 1 .. Len(raw) \div 2 |-> U16At(raw, 2 * i - 1)]

\* String::from_utf16(units.split_last().unwrap().1).unwrap()
StringConv(raw) ==
    LET u == Units(raw)
        body == SubSeq(u, 1, Len(u) - 1)
    IN  IF Len(u) = 0 THEN Panic
        ELSE IF ~ValidUtf16(body) THEN Panic
        ELSE Val(body)

First(raw) == IF Len(raw) = 0 THEN Panic ELSE Val(raw[1])

V(k, c) == IF c.ok THEN Ok([k |-> k, v |-> c.v]) ELSE Fatal

\* (mutant) any non-zero byte taken as true
BoolOfByteNonZero(b) == b # 0
\* the element-wise test of fetch_property_value's BoolArray arm
BoolOfByte(b) == AsI8(b) = DEVPROP_TRUE

\* The match of fetch_property_value on (prop_ty & MASK_TYPEMOD, prop_ty & MASK_TYPE)
DecodeValue(prop_ty, raw) ==
    LET mod == ((prop_ty \div (DEVPROP_MASK_TYPE + 1)) % 16) * (DEVPROP_MASK_TYPE + 1)
        ty == prop_ty % (DEVPROP_MASK_TYPE + 1)
        ARR == DEVPROP_TYPEMOD_ARRAY
        b == First(raw)
    IN  CASE mod = 0 /\ ty = DEVPROP_TYPE_EMPTY -> Ok([k |-> "Empty", v |-> 0])
          [] mod = 0 /\ ty = DEVPROP_TYPE_NULL -> Ok([k |-> "Null", v |-> 0])
          [] mod = 0 /\ ty = DEVPROP_TYPE_BOOLEAN ->
                V("Bool", IF b.ok THEN Val(AsI8(b.v) = DEVPROP_TRUE) ELSE Panic)
          [] mod = 0 /\ ty = DEVPROP_TYPE_STRING -> V("String", StringConv(raw))
          [] mod = 0 /\ ty = DEVPROP_TYPE_SBYTE ->
                V("I8", IF b.ok THEN Val(AsI8(b.v)) ELSE Panic)
          [] mod = 0 /\ ty = DEVPROP_TYPE_BYTE -> V("U8", b)
          [] mod = 0 /\ ty = DEVPROP_TYPE_INT16 -> V("I16", i16conv(raw))
          [] mod = 0 /\ ty = DEVPROP_TYPE_UINT16 -> V("U16", u16conv(raw))
          [] mod = 0 /\ ty = DEVPROP_TYPE_INT32 -> V("I32", i32conv(raw))
          [] mod = 0 /\ ty = DEVPROP_TYPE_UINT32 -> V("U32", u32conv(raw))
          [] mod = 0 /\ ty = DEVPROP_TYPE_INT64 -> V("I64", i64conv(raw))
          [] mod = 0 /\ ty = DEVPROP_TYPE_UINT64 -> V("U64", u64conv(raw))
          [] mod = 0 /\ ty = DEVPROP_TYPE_FLOAT -> V("F32", f32conv(raw))
          [] mod = 0 /\ ty = DEVPROP_TYPE_DOUBLE -> V("F64", f64conv(raw))
          [] mod = 0 /\ ty = DEVPROP_TYPE_BINARY -> Ok([k |-> "Binary", v |-> raw])
          [] mod = 0 /\ ty = DEVPROP_TYPE_GUID -> V("Guid", guidconv(raw))
          [] mod = ARR /\ ty = DEVPROP_TYPE_BOOLEAN ->
                Ok([k |-> "BoolArray", v |-> [i \in 1 .. Len(raw) |-> BoolOfByte(raw[i])]])
          [] mod = ARR /\ ty = DEVPROP_TYPE_SBYTE ->
                Ok([k |-> "I8Array", v |-> [i \in 1 .. Len(raw) |-> AsI8(raw[i])]])
          [] mod = ARR /\ ty = DEVPROP_TYPE_BYTE -> Ok([k |-> "U8Array", v |-> raw])
          [] mod = ARR /\ ty = DEVPROP_TYPE_INT16 -> V("I16Array", arrconv(raw, "i16"))
          [] mod = ARR /\ ty = DEVPROP_TYPE_UINT16 -> V("U16Array", arrconv(raw, "u16"))
          [] mod = ARR /\ ty = DEVPROP_TYPE_INT32 -> V("I32Array", arrconv(raw, "i32"))
          [] mod = ARR /\ ty = DEVPROP_TYPE_UINT32 -> V("U32Array", arrconv(raw, "u32"))
          [] mod = ARR /\ ty = DEVPROP_TYPE_INT64 -> V("I64Array", arrconv(raw, "i64"))
          [] mod = ARR /\ ty = DEVPROP_TYPE_UINT64 -> V("U64Array", arrconv(raw, "u64"))
          [] mod = ARR /\ ty = DEVPROP_TYPE_FLOAT -> V("F32Array", arrconv(raw, "f32"))
          [] mod = ARR /\ ty = DEVPROP_TYPE_DOUBLE -> V("F64Array", arrconv(raw, "f64"))
          [] mod = ARR /\ ty = DEVPROP_TYPE_GUID -> V("GuidArray", arrconv(raw, "GUID"))
          [] OTHER -> Ok([k |-> "Unsupported", v |-> prop_ty])

\* (mutant) the buffer made with a guessed size before the probe, and resized
fetch_property_valuePrealloc(pa, fa) ==
    LET fn == "SetupDiGetDeviceInterfacePropertyW"
        size == pa.size
        t1 == <<AllocEv("vec!", size, 1), ProbeEv(fn)>>
        t3 == Append(t1, FetchEv(fn, size, size))
    IN  IF pa.ret THEN Outcome("fetch_property_value", "", pa, NoAnswer, t1, Fatal)
        ELSE IF pa.err # INSUFFICIENT_BUFFER
            THEN Outcome("fetch_property_value", "", pa, NoAnswer, t1, Err(pa.err))
        ELSE IF ~fa.ret THEN Outcome("fetch_property_value", "", pa, fa, t3, Err(fa.err))
        ELSE Outcome("fetch_property_value", "", pa, fa, t3, DecodeValue(fa.ty, fa.raw))

\* DevInterfaceData::fetch_property_value: the buffer is vec![0u8; size]; the
\* fetch gives no RequiredSize pointer and writes the tag into the same prop_ty
fetch_property_value(pa, fa) ==
    LET fn == "SetupDiGetDeviceInterfacePropertyW"
        size == pa.size
        t1 == <<ProbeEv(fn)>>
        t2 == Append(t1, AllocEv("vec!", size, 1))
        t3 == Append(t2, FetchEv(fn, size, size))
    IN  IF pa.ret THEN Outcome("fetch_property_value", "", pa, NoAnswer, t1, Fatal)
        ELSE IF pa.err # INSUFFICIENT_BUFFER
            THEN Outcome("fetch_property_value", "", pa, NoAnswer, t1, Err(pa.err))
        ELSE IF ~fa.ret THEN Outcome("fetch_property_value", "", pa, fa, t3, Err(fa.err))
        ELSE Outcome("fetch_property_value", "", pa, fa, t3, DecodeValue(fa.ty, fa.raw))

FetchPropertyValue ==
    /\ qpc = "idle"
    /\ \E pa \in ProbeAnswers(Tags) :
        \E fa \in FetchAnswers(pa.size, {pa.ty} \cup ChangedTags) :
            last' = fetch_property_value(pa, fa)
    /\ qpc' = "done"
    /\ descriptor' = NoProp
    /\ UNCHANGED lifeVars

-----------------------------------------------------------------------------
(* devdata/properties.rs: the descriptor and the typed fetch *)

\* A step of an operation: the calls it adds, the fetch answer it read and its result
Step(trace, fa, res) == [trace |-> trace, fa |-> fa, res |-> res]

\* (mutant) without assert_eq!(result, FALSE): a probe that succeeded goes on to
\* read the last error
fetch_property_infoNoAssert(pa) ==
    IF ~pa.ret /\ pa.err = INSUFFICIENT_BUFFER THEN Ok([ty |-> pa.ty, size |-> pa.size])
    ELSE Err(pa.err)

\* (mutant) every failure of the probe taken for ERROR_INSUFFICIENT_BUFFER
fetch_property_infoAnyFailure(pa) ==
    IF pa.ret THEN Fatal ELSE Ok([ty |-> pa.ty, size |-> pa.size])

\* DevInterfaceData::fetch_property_info: Ok(Property {ty, size}) after a probe
\* that failed with ERROR_INSUFFICIENT_BUFFER
fetch_property_info(pa) ==
    IF pa.ret THEN Fatal
    ELSE IF pa.err # INSUFFICIENT_BUFFER THEN Err(pa.err)
    ELSE Ok([ty |-> pa.ty, size |-> pa.size])

\* The caller asks for the descriptor of a key
FetchPropertyInfo ==
    /\ qpc = "idle"
    /\ \E pa \in ProbeAnswers(Tags) :
        last' = Outcome("fetch_property_info", "", pa, NoAnswer,
                        <<ProbeEv("SetupDiGetDeviceInterfacePropertyW")>>,
                        fetch_property_info(pa))
    /\ qpc' = "done"
    /\ descriptor' = IF last'.res.st = "ok"
                      THEN [held |-> TRUE, pa |-> last'.pa, fetched |-> FALSE]
                      ELSE NoProp
    /\ UNCHANGED lifeVars

\* (mutant) the guard only refuses a size smaller than T
Property_fetchAtLeast(T, prop, fa) ==
    LET fn == "SetupDiGetDeviceInterfacePropertyW"
        call == <<FetchEv(fn, SizeOf(T), prop.size)>>
    IN  IF prop.size < SizeOf(T) THEN Step(<<>>, NoAnswer, Fatal)
        ELSE IF ~fa.ret THEN Step(call, fa, Err(fa.err))
        ELSE IF prop.size # fa.size THEN Step(call, fa, Fatal)
        ELSE IF prop.ty # fa.ty THEN Step(call, fa, Fatal)
        ELSE Step(call, fa, Ok(Transmute(T, fa.raw)))

\* Property::fetch::<T>: the buffer is a MaybeUninit<T>
Property_fetch(T, prop, fa) ==
    LET fn == "SetupDiGetDeviceInterfacePropertyW"
        call == <<FetchEv(fn, SizeOf(T), prop.size)>>
    IN  IF prop.size # SizeOf(T) THEN Step(<<>>, NoAnswer, Fatal)
        ELSE IF ~fa.ret THEN Step(call, fa, Err(fa.err))
        ELSE IF prop.size # fa.size THEN Step(call, fa, Fatal)
        ELSE IF prop.ty # fa.ty THEN Step(call, fa, Fatal)
        ELSE Step(call, fa, Ok(Transmute(T, fa.raw)))

\* (mutant) the assertions on the out-parameters made before the result is tested
Property_fetch_arrayAssertFirst(T, prop, fa, mem) ==
    LET fn == "SetupDiGetDeviceInterfacePropertyW"
        len == prop.size \div SizeOf(T)
        raw == alloc_slice_with_align(prop.size, AlignOf(T), mem)
        t1 == <<AllocEv("alloc_slice_with_align", prop.size, AlignOf(T))>>
        t2 == Append(t1, FetchEv(fn, raw.len, prop.size))
    IN  IF prop.size % SizeOf(T) # 0 THEN Step(<<>>, NoAnswer, Fatal)
        ELSE IF prop.size = 0 THEN Step(<<>>, NoAnswer, Fatal)
        ELSE IF ~raw.ok THEN Step(<<>>, NoAnswer, Fatal)
        ELSE IF prop.ty # fa.ty THEN Step(t2, fa, Fatal)
        ELSE IF prop.size # fa.size THEN Step(t2, fa, Fatal)
        ELSE IF ~fa.ret THEN Step(t2, fa, Err(fa.err))
        ELSE Step(t2, fa,
                  Ok([i \in 1 .. len |->
                        Transmute(T, SubSeq(fa.raw, (i - 1) * SizeOf(T) + 1, i * SizeOf(T)))]))

\* (mutant) a size of 0 is given to the allocator as it is
Property_fetch_arrayZeroSize(T, prop, fa, mem) ==
    LET fn == "SetupDiGetDeviceInterfacePropertyW"
        len == prop.size \div SizeOf(T)
        raw == alloc_slice_with_align(prop.size, AlignOf(T), mem)
        t1 == <<AllocEv("alloc_slice_with_align", prop.size, AlignOf(T))>>
        t2 == Append(t1, FetchEv(fn, raw.len, prop.size))
    IN  IF prop.size % SizeOf(T) # 0 THEN Step(<<>>, NoAnswer, Fatal)
        ELSE IF ~raw.ok THEN Step(<<>>, NoAnswer, Fatal)
        ELSE IF ~fa.ret THEN Step(t2, fa, Err(fa.err))
        ELSE IF prop.ty # fa.ty THEN Step(t2, fa, Fatal)
        ELSE IF prop.size # fa.size THEN Step(t2, fa, Fatal)
        ELSE Step(t2, fa,
                  Ok([i \in 1 .. len |->
                        Transmute(T, SubSeq(fa.raw, (i - 1) * SizeOf(T) + 1, i * SizeOf(T)))]))

\* Property::fetch_array::<T>: the buffer is alloc_slice_with_align(size, align_of T)
Property_fetch_array(T, prop, fa, mem) ==
    LET fn == "SetupDiGetDeviceInterfacePropertyW"
        len == prop.size \div SizeOf(T)
        raw == alloc_slice_with_align(prop.size, AlignOf(T), mem)
        t1 == <<AllocEv("alloc_slice_with_align", prop.size, AlignOf(T))>>
        t2 == Append(t1, FetchEv(fn, raw.len, prop.size))
    IN  IF prop.size % SizeOf(T) # 0 THEN Step(<<>>, NoAnswer, Fatal)
        ELSE IF prop.size = 0 THEN Step(<<>>, NoAnswer, Fatal)
        ELSE IF ~raw.ok THEN Step(<<>>, NoAnswer, Fatal)
        ELSE IF ~fa.ret THEN Step(t2, fa, Err(fa.err))
        ELSE IF prop.ty # fa.ty THEN Step(t2, fa, Fatal)
        ELSE IF prop.size # fa.size THEN Step(t2, fa, Fatal)
        ELSE Step(t2, fa,
                  Ok([i \in 1 .. len |->
                        Transmute(T, SubSeq(fa.raw, (i - 1) * SizeOf(T) + 1, i * SizeOf(T)))]))

\* the types the caller of the unsafe methods names: of widths 1, 4 and 16
CallerTypes == {"u8", "u32", "GUID"}

\* the answers to a fetch made from a held Property: those of FetchAnswers that
\* fill the buffer with 0xFF bytes or with distinct bytes
HeldAnswers(n, ty) ==
    {a \in FetchAnswers(n, {ty}) : a.ret => a.raw \in {Fill(2, n), Fill(8, n)}}

HasFetch(trace) == \E i \in 1 .. Len(trace) : trace[i].ev = "fetch"

\* The caller calls Property::fetch::<T>() on the Property it holds. fetch takes
\* self, and Property is Copy: the call consumes a copy and the caller keeps its own
PropertyFetch ==
    /\ qpc = "done"
    /\ descriptor.held
    /\ \E T \in CallerTypes : \E fa \in HeldAnswers(descriptor.pa.size, descriptor.pa.ty) :
        LET got == Property_fetch(T, fetch_property_info(descriptor.pa).val, fa)
        IN  /\ last' = Outcome("Property_fetch", T, descriptor.pa, got.fa, got.trace, got.res)
            /\ descriptor' = [descriptor EXCEPT !.fetched = @ \/ HasFetch(got.trace)]
    /\ UNCHANGED qpc
    /\ UNCHANGED lifeVars

\* The caller calls Property::fetch_array::<T>() on the Property it holds;
\* fetch_array takes &self
PropertyFetchArray ==
    /\ qpc = "done"
    /\ descriptor.held
    /\ \E T \in CallerTypes, mem \in Memory :
        \E fa \in HeldAnswers(descriptor.pa.size, descriptor.pa.ty) :
            LET got == Property_fetch_array(T, fetch_property_info(descriptor.pa).val, fa, mem)
            IN  /\ last' = Outcome("Property_fetch_array", T, descriptor.pa, got.fa, got.trace,
                                   got.res)
                /\ descriptor' = [descriptor EXCEPT !.fetched = @ \/ HasFetch(got.trace)]
    /\ UNCHANGED qpc
    /\ UNCHANGED lifeVars

\* crate::winbools_to_bools: each DEVPROP_BOOLEAN compared with DEVPROP_TRUE
winbools_to_bools(bs) == [i \in 1 .. Len(bs) |-> bs[i] = DEVPROP_TRUE]

\* WString::from_utf16le_unchecked(bytes): the string of the buffer's code units
WStringOf(bytes) == Units(bytes)

\* Result::map
Map(step, k) ==
    IF step.res.st = "ok"
    THEN Step(step.trace, step.fa, Ok([k |-> k, v |-> step.res.val]))
    ELSE step

\* the type parameter, the variant and the kind of fetch of each arm of the match
\* of fetch_property
Arm(ty) ==
    CASE ty = DEVPROP_TYPE_SBYTE -> [T |-> "i8", k |-> "I8", array |-> FALSE]
      [] ty = DEVPROP_TYPE_BYTE -> [T |-> "u8", k |-> "U8", array |-> FALSE]
      [] ty = DEVPROP_TYPE_INT16 -> [T |-> "i16", k |-> "I16", array |-> FALSE]
      [] ty = DEVPROP_TYPE_UINT16 -> [T |-> "u16", k |-> "U16", array |-> FALSE]
      [] ty = DEVPROP_TYPE_INT32 -> [T |-> "i32", k |-> "I32", array |-> FALSE]
      [] ty = DEVPROP_TYPE_UINT32 -> [T |-> "u32", k |-> "U32", array |-> FALSE]
      [] ty = DEVPROP_TYPE_INT64 -> [T |-> "i64", k |-> "I64", array |-> FALSE]
      [] ty = DEVPROP_TYPE_UINT64 -> [T |-> "u64", k |-> "U64", array |-> FALSE]
      [] ty = DEVPROP_TYPE_FLOAT -> [T |-> "f32", k |-> "F32", array |-> FALSE]
      [] ty = DEVPROP_TYPE_DOUBLE -> [T |-> "f64", k |-> "F64", array |-> FALSE]
      [] ty = DEVPROP_TYPE_GUID -> [T |-> "GUID", k |-> "Guid", array |-> FALSE]
      [] ty = DEVPROP_TYPE_BOOLEAN -> [T |-> "DEVPROP_BOOLEAN", k |-> "Bool", array |-> FALSE]
      [] ty = DEVPROP_TYPE_BINARY -> [T |-> "u8", k |-> "Binary", array |-> TRUE]
      [] ty = DEVPROP_TYPE_STRING -> [T |-> "u8", k |-> "String", array |-> TRUE]
      [] ty = SBYTE_ARRAY -> [T |-> "i8", k |-> "I8Array", array |-> TRUE]
      [] ty = INT16_ARRAY -> [T |-> "i16", k |-> "I16Array", array |-> TRUE]
      [] ty = UINT16_ARRAY -> [T |-> "u16", k |-> "U16Array", array |-> TRUE]
      [] ty = INT32_ARRAY -> [T |-> "i32", k |-> "I32Array", array |-> TRUE]
      [] ty = UINT32_ARRAY -> [T |-> "u32", k |-> "U32Array", array |-> TRUE]
      [] ty = INT64_ARRAY -> [T |-> "i64", k |-> "I64Array", array |-> TRUE]
      [] ty = UINT64_ARRAY -> [T |-> "u64", k |-> "U64Array", array |-> TRUE]
      [] ty = FLOAT_ARRAY -> [T |-> "f32", k |-> "F32Array", array |-> TRUE]
      [] ty = DOUBLE_ARRAY -> [T |-> "f64", k |-> "F64Array", array |-> TRUE]
      [] ty = GUID_ARRAY -> [T |-> "GUID", k |-> "GuidArray", array |-> TRUE]
      [] ty = BOOLEAN_ARRAY ->
            [T |-> "DEVPROP_BOOLEAN", k |-> "BoolArray", array |-> TRUE]

\* the match of fetch_property on property.ty, for the arms that fetch
FetchArm(prop, fa, mem) ==
    LET arm == Arm(prop.ty)
        got == IF arm.array THEN Property_fetch_array(arm.T, prop, fa, mem)
               ELSE Property_fetch(arm.T, prop, fa)
    IN  IF got.res.st # "ok" THEN got
        ELSE IF arm.k = "Bool"
            THEN Step(got.trace, got.fa, Ok([k |-> "Bool", v |-> got.res.val = DEVPROP_TRUE]))
        ELSE IF arm.k = "BoolArray"
            THEN Step(got.trace, got.fa,
                      Ok([k |-> "BoolArray", v |-> winbools_to_bools(got.res.val)]))
        ELSE IF arm.k = "String"
            THEN Step(got.trace, got.fa, Ok([k |-> "String", v |-> WStringOf(got.res.val)]))
        ELSE Map(got, arm.k)

\* (mutant) a tag outside the table is fetched as an array of bytes
fetch_propertyFetchUnknown(pa, fa, mem) ==
    LET fn == "SetupDiGetDeviceInterfacePropertyW"
        t1 == <<ProbeEv(fn)>>
        info == fetch_property_info(pa)
        prop == info.val
        got == FetchArm(prop, fa, mem)
        bytes == Map(Property_fetch_array("u8", prop, fa, mem), "Unsupported")
    IN  IF info.st # "ok" THEN Outcome("fetch_property", "", pa, NoAnswer, t1, info)
        ELSE IF prop.ty = DEVPROP_TYPE_EMPTY
            THEN Outcome("fetch_property", "", pa, NoAnswer, t1, Ok([k |-> "Empty", v |-> 0]))
        ELSE IF prop.ty = DEVPROP_TYPE_NULL
            THEN Outcome("fetch_property", "", pa, NoAnswer, t1, Ok([k |-> "Null", v |-> 0]))
        ELSE IF prop.ty \in TableTags
            THEN Outcome("fetch_property", Arm(prop.ty).T, pa, got.fa, t1 \o got.trace,
                         got.res)
        ELSE Outcome("fetch_property", "u8", pa, bytes.fa, t1 \o bytes.trace, bytes.res)

\* DevInterfaceData::fetch_property
fetch_property(pa, fa, mem) ==
    LET fn == "SetupDiGetDeviceInterfacePropertyW"
        t1 == <<ProbeEv(fn)>>
        info == fetch_property_info(pa)
        prop == info.val
        got == FetchArm(prop, fa, mem)
    IN  IF info.st # "ok" THEN Outcome("fetch_property", "", pa, NoAnswer, t1, info)
        ELSE IF prop.ty = DEVPROP_TYPE_EMPTY
            THEN Outcome("fetch_property", "", pa, NoAnswer, t1, Ok([k |-> "Empty", v |-> 0]))
        ELSE IF prop.ty = DEVPROP_TYPE_NULL
            THEN Outcome("fetch_property", "", pa, NoAnswer, t1, Ok([k |-> "Null", v |-> 0]))
        ELSE IF prop.ty \in TableTags
            THEN Outcome("fetch_property", Arm(prop.ty).T, pa, got.fa, t1 \o got.trace,
                         got.res)
        ELSE Outcome("fetch_property", "", pa, NoAnswer, t1,
                     Ok([k |-> "Unsupported", v |-> prop.ty]))

FetchProperty ==
    /\ qpc = "idle"
    /\ \E pa \in ProbeAnswers(Tags), mem \in Memory :
        \E fa \in FetchAnswers(pa.size, {pa.ty} \cup ChangedTags) :
            last' = fetch_property(pa, fa, mem)
    /\ qpc' = "done"
    /\ descriptor' = NoProp
    /\ UNCHANGED lifeVars

\* The caller takes the result and goes on to its next query
Return ==
    /\ qpc = "done"
    /\ qpc' = "idle"
    /\ last' = NoQuery
    /\ descriptor' = NoProp
    /\ UNCHANGED lifeVars

\* A record enumerated from an open set is in scope; the queries are made on it
InitQuery ==
    /\ handle = "valid"
    /\ set = "open"
    /\ closes = 0
    /\ gen = 1
    /\ iter = [live |-> TRUE, next |-> 1, guid |-> "GUID_DEVINTERFACE_DISK"]
    /\ polls = <<[index |-> 0,
                 call |-> EnumCall("valid", "GUID_DEVINTERFACE_DISK", 0, raw_zeroed),
                 os |-> [ret |-> TRUE, err |-> "none"],
                 out |-> OkRec(<<1, 0>>)]>>
    /\ lastFetch = NoFetch
    /\ live = 1
    /\ qpc = "idle"
    /\ last = NoQuery
    /\ descriptor = NoProp

NextQuery ==
    \/ FetchPath
    \/ DevsetFetchPath
    \/ FetchPropertyKeys
    \/ FetchPropertyValue
    \/ FetchPropertyInfo
    \/ FetchProperty
    \/ PropertyFetch
    \/ PropertyFetchArray
    \/ AllocSlice
    \/ Return

SpecQuery == InitQuery /\ [][NextQuery]_vars

-----------------------------------------------------------------------------
(* Enumeration: the claims *)

\* The polls 1..n of the current iterator got n-1 successes and then "no more items"
SuccessesThenNoMore(n) ==
    /\ n \in 1 .. Len(polls)
    /\ ~polls[n].os.ret
    /\ polls[n].os.err = NO_MORE_ITEMS
    /\ \A j \in 1 .. n - 1 : polls[j].os.ret

\* The polls 1..n of the current iterator got n-1 successes and then a platform error
SuccessesThenFault(n) ==
    /\ n \in 1 .. Len(polls)
    /\ ~polls[n].os.ret
    /\ polls[n].os.err \in OtherErrors
    /\ \A j \in 1 .. n - 1 : polls[j].os.ret

\* C1: when the OS enumerate-step succeeds for the indices 0..N-1 and then reports
\* "no more items", the sequence yields exactly the N records of the indices
\* 0..N-1, in order, then end-of-sequence (None), and no error element; and
\* DevInterfaceData::fetch answers "no more items" with Ok(None), not with an error.
EnumerationTermination ==
    /\ \A n \in 1 .. Len(polls) :
            SuccessesThenNoMore(n) =>
                /\ \A j \in 1 .. n - 1 :
                        /\ polls[j].index = j - 1
                        /\ polls[j].out.t = "Ok"
                        /\ polls[j].out.rec = <<gen, j - 1>>
                /\ polls[n].index = n - 1
                /\ polls[n].out.t = "None"
    /\ (lastFetch.index >= 0 /\ ~lastFetch.os.ret /\ lastFetch.os.err = NO_MORE_ITEMS) =>
            (lastFetch.out.t = "Ok" /\ ~lastFetch.out.some)
    /\ (lastFetch.index >= 0 /\ lastFetch.os.ret) =>
            (lastFetch.out.t = "Ok" /\ lastFetch.out.some)

\* C1 witness: two records, then the clean end, and a fetch that met "no more items"
EnumerationTerminationWitness ==
    /\ Len(polls) = 3
    /\ SuccessesThenNoMore(3)
    /\ polls[3].out.t = "None"
    /\ lastFetch.index >= 0
    /\ lastFetch.os.err = NO_MORE_ITEMS

\* C2 (as claimed): after k successes and a platform error at index k the sequence
\* yields the k records and one error element, and then terminates: no later
\* poll queries the OS or yields anything.
EnumerationFaultEnds ==
    \A n \in 1 .. Len(polls) :
        SuccessesThenFault(n) =>
            /\ polls[n].out.t = "Err"
            /\ polls[n].out.code = polls[n].os.err
            /\ Len(polls) = n

\* C3: the handle of a successful open is closed once, when the set is dropped (also
\* when nothing was enumerated); a refused open closes nothing; and no record
\* borrowed from the set is in scope once the handle is closed.
HandleLifecycle ==
    /\ closes = (IF set = "closed" THEN 1 ELSE 0)
    /\ closes > 0 => handle = "valid"
    /\ handle = "invalid" => set = "failed"
    /\ closes > 0 => (live = 0 /\ ~iter.live)

\* C3 witness: a set closed after records were enumerated from it and dropped
HandleLifecycleWitness ==
    /\ set = "closed"
    /\ closes = 1
    /\ \E n \in 1 .. Len(polls) : polls[n].out.t = "Ok"
    /\ live = 0

EndStatesAreTerminal ==
    \A n \in 1 .. Len(polls) :
        polls[n].out.t \in {"None", "Err"} => Len(polls) = n

-----------------------------------------------------------------------------
(* The Buffer-Sizing Protocol and the decode: the claims *)

Done == qpc = "done"
\* the fetch call was made and succeeded
Fetched == Done /\ last.fa.ret
\* the fetch answered with the tag and the size of the probe
Consistent == last.fa.ty = last.pa.ty /\ last.fa.size = last.pa.size
IsDecode == last.op \in {"fetch_property", "fetch_property_value"}
\* the tag the value is decoded by: the descriptor's in fetch_property, the one
\* the fetch wrote in fetch_property_value
DecodeTag == IF last.op = "fetch_property" THEN last.pa.ty ELSE last.fa.ty
\* the byte width of the elements of an array tag
ElemWidth(tag) == SizeOf(Arm(tag).T)

\* C4: in every invocation of the Buffer-Sizing Protocol the buffer handed to the
\* fetch call has exactly the size the probe reported, and the size argument of
\* the fetch call is that size too.
FetchBufferIsProbeSize ==
    Done =>
        \A i \in 1 .. Len(last.trace) :
            last.trace[i].ev = "fetch" =>
                /\ last.trace[i].buf = last.pa.size
                /\ last.trace[i].size = last.pa.size

\* C4 witness: a path fetch made with a buffer of 9 bytes, not a multiple of the
\* structure's alignment
FetchBufferIsProbeSizeWitness ==
    /\ Done
    /\ last.op = "fetch_path"
    /\ last.pa.size = 9
    /\ \E i \in 1 .. Len(last.trace) : last.trace[i].ev = "fetch"
    /\ last.res.st = "ok"

\* C5 (as claimed): whenever the fetch call succeeds and reports a size other than
\* the probe's, the operation ends in a fatal condition, whichever query it is.
SizeMismatchIsFatal ==
    (Fetched /\ last.fa.size # last.pa.size) => last.res.st = "fatal"

\* C6 (as claimed): whenever a property-value fetch succeeds with a type tag other
\* than the one the probe returned, the operation ends in a fatal condition.
TagMismatchIsFatal ==
    (Fetched /\ IsDecode /\ last.fa.ty # last.pa.ty) => last.res.st = "fatal"

\* C7 (as claimed): an array-typed decode of a raw buffer whose length is not a
\* multiple of the element width never produces an array: it ends in a fatal
\* condition (or, when the fetch call itself fails, in that call's error).
ArrayRemainderIsFault ==
    (Done /\ IsDecode /\ last.pa.err = INSUFFICIENT_BUFFER
        /\ (last.op = "fetch_property_value" => last.fa.ret)
        /\ DecodeTag \in ArrayTags
        /\ last.pa.size % ElemWidth(DecodeTag) # 0)
    => last.res.st = "fatal"

\* C8 (as claimed): an array-typed decode of a fetched raw buffer whose length is a
\* multiple of the element width w returns the array of len/w elements, element i
\* being the fixed-width decode of the bytes [i*w, (i+1)*w).
ArrayDecodeIsExact ==
    (Fetched /\ IsDecode /\ Consistent /\ DecodeTag \in ArrayTags
        /\ last.pa.size % ElemWidth(DecodeTag) = 0)
    => LET w == ElemWidth(DecodeTag)
           T == Arm(DecodeTag).T
       IN  /\ last.res.st = "ok"
           /\ last.res.val.k = Arm(DecodeTag).k
           /\ Len(last.res.val.v) = last.pa.size \div w
           /\ T \notin {"DEVPROP_BOOLEAN"} =>
                \A i \in 1 .. Len(last.res.val.v) :
                    last.res.val.v[i] =
                        Transmute(T, SubSeq(last.fa.raw, (i - 1) * w + 1, i * w))

\* the little-endian reading of four bytes, as two 16-bit limbs (low, high)
LittleEndian32(b) == <<b[1] + 256 * b[2], b[3] + 256 * b[4]>>

\* C9: a property of tag UINT32 and size 4 whose fetch succeeds decodes to the
\* scalar U32 whose value is the little-endian reading of the four raw bytes;
\* the bytes 2A 00 00 00 decode to 42.
Uint32DecodesLittleEndian ==
    (Fetched /\ IsDecode /\ Consistent /\ last.pa.ty = DEVPROP_TYPE_UINT32
        /\ last.pa.size = 4)
    => /\ last.res.st = "ok"
       /\ last.res.val.k = "U32"
       /\ last.res.val.v = LittleEndian32(last.fa.raw)
       /\ last.fa.raw = <<42, 0, 0, 0>> =>
            last.res.val.v[1] + 65536 * last.res.val.v[2] = 42

\* C9 witness: the typed fetch decoded the bytes 2A 00 00 00
Uint32DecodesLittleEndianWitness ==
    /\ Fetched
    /\ last.op = "fetch_property"
    /\ last.pa.ty = DEVPROP_TYPE_UINT32
    /\ last.fa.raw = <<42, 0, 0, 0>>
    /\ last.res.st = "ok"

\* a successful, consistent fetch of a BOOLEAN_ARRAY property
BoolArrayFetched ==
    Fetched /\ IsDecode /\ Consistent /\ last.pa.ty = BOOLEAN_ARRAY

\* C10 (as claimed): the raw bytes 01 00 01 of a boolean array decode to
\* [true, false, true].
BoolArrayOneIsTrue ==
    (BoolArrayFetched /\ last.fa.raw = <<1, 0, 1>>)
    => /\ last.res.st = "ok"
       /\ last.res.val.k = "BoolArray"
       /\ last.res.val.v = <<TRUE, FALSE, TRUE>>

\* C10 (amended): a fetched boolean array of n bytes decodes to n booleans, one per
\* byte, in order; in fetch_property_value a byte is true exactly when it is the
\* DEVPROP_TRUE sentinel FF, so FF 00 FF decodes to [true, false, true] and
\* 01 00 01 to [false, false, false].
BoolArrayComparesSentinel ==
    BoolArrayFetched
    => /\ last.res.st = "ok"
       /\ last.res.val.k = "BoolArray"
       /\ Len(last.res.val.v) = Len(last.fa.raw)
       /\ last.op = "fetch_property_value" =>
            /\ \A i \in 1 .. Len(last.fa.raw) :
                    last.res.val.v[i] = (last.fa.raw[i] = 255)
            /\ last.fa.raw = <<255, 0, 255>> => last.res.val.v = <<TRUE, FALSE, TRUE>>
            /\ last.fa.raw = <<1, 0, 1>> => last.res.val.v = <<FALSE, FALSE, FALSE>>

\* C10 witness: fetch_property_value decoded the bytes FF 00 FF
BoolArrayComparesSentinelWitness ==
    /\ BoolArrayFetched
    /\ last.op = "fetch_property_value"
    /\ last.fa.raw = <<255, 0, 255>>
    /\ last.res.st = "ok"

\* the probe answered ERROR_INSUFFICIENT_BUFFER and, where the operation makes a
\* fetch call to learn the tag it decodes by, that call succeeded
CallsSucceeded ==
    /\ Done
    /\ IsDecode
    /\ ~last.pa.ret
    /\ last.pa.err = INSUFFICIENT_BUFFER
    /\ last.op = "fetch_property_value" => last.fa.ret

\* C11 (as claimed): for every tag outside the decode table, the decode of a
\* property whose OS calls succeed returns Unsupported carrying exactly the tag the
\* OS reported, and neither an error nor a fatal condition.
UnsupportedCarriesRawTag ==
    (CallsSucceeded /\ DecodeTag \notin TableTags)
    => last.res = Ok([k |-> "Unsupported", v |-> DecodeTag])

(* The documented wire format: integers little-endian, a boolean as the byte FF
   (true) or 00 (false), a GUID as its fields in order, a string as its UTF-16LE
   code units followed by a zero unit, an array as its elements one after another *)

\* the bytes of a sequence of 16-bit limbs, least significant limb and byte first
RECURSIVE LimbBytes(_)
LimbBytes(l) ==
    IF l = <<>> THEN <<>>
    ELSE <<l[1] % 256, l[1] \div 256>> \o LimbBytes(Tail(l))

EncodeScalar(k, v) ==
    CASE k = "U8" -> <<v>>
      [] k = "I8" -> <<v % 256>>
      [] k = "Bool" -> <<IF v THEN 255 ELSE 0>>
      [] k = "U16" -> LimbBytes(<<v>>)
      [] k = "I16" -> LimbBytes(<<v % 65536>>)
      [] k \in {"I32", "U32", "I64", "U64"} -> LimbBytes(v)
      [] k = "Guid" ->
            LimbBytes(v.Data1) \o LimbBytes(<<v.Data2>>) \o LimbBytes(<<v.Data3>>)
                \o v.Data4
      [] k = "String" -> LimbBytes(v \o <<0>>)

RECURSIVE EncodeArray(_, _)
EncodeArray(k, vs) ==
    IF vs = <<>> THEN <<>>
    ELSE EncodeScalar(k, vs[1]) \o EncodeArray(k, Tail(vs))

\* the scalar kind of the elements of an array kind
ElemKind(k) ==
    CASE k = "I8Array" -> "I8"
      [] k = "I16Array" -> "I16"
      [] k = "U16Array" -> "U16"
      [] k = "I32Array" -> "I32"
      [] k = "U32Array" -> "U32"
      [] k = "I64Array" -> "I64"
      [] k = "U64Array" -> "U64"
      [] k = "BoolArray" -> "Bool"
      [] k = "GuidArray" -> "Guid"
      [] OTHER -> ""

Encode(val) ==
    IF ElemKind(val.k) = "" THEN EncodeScalar(val.k, val.v)
    ELSE EncodeArray(ElemKind(val.k), val.v)

\* the tag of each kind of value
TagOf(k) == CHOOSE t \in TableTags \ {DEVPROP_TYPE_EMPTY, DEVPROP_TYPE_NULL} : Arm(t).k = k

SampleGuid ==
    [Data1 |-> <<513, 1027>>, Data2 |-> 1541, Data3 |-> 2055,
     Data4 |-> <<9, 10, 11, 12, 13, 14, 15, 128>>]

\* values of the supported kinds: scalars and arrays of each integer width, bool,
\* GUID and string
RoundTripValues ==
    <<[k |-> "U8", v |-> 255], [k |-> "I8", v |-> -1],
     [k |-> "U16", v |-> 1], [k |-> "I16", v |-> -1],
     [k |-> "U32", v |-> <<42, 0>>], [k |-> "I32", v |-> <<65535, 65535>>],
     [k |-> "U64", v |-> <<0, 0, 0, 0>>],
     [k |-> "I64", v |-> <<65535, 65535, 65535, 65535>>],
     [k |-> "Bool", v |-> TRUE], [k |-> "Bool", v |-> FALSE],
     [k |-> "Guid", v |-> SampleGuid],
     [k |-> "String", v |-> <<65, 66>>],
     [k |-> "I8Array", v |-> <<-1, -1>>],
     [k |-> "I16Array", v |-> <<1, 1>>], [k |-> "U16Array", v |-> <<1>>],
     [k |-> "I32Array", v |-> <<<<65535, 65535>>>>],
     [k |-> "U32Array", v |-> <<<<42, 0>>, <<42, 0>>>>],
     [k |-> "I64Array", v |-> <<<<65535, 65535, 65535, 65535>>>>],
     [k |-> "U64Array", v |-> <<<<0, 0, 0, 0>>, <<0, 0, 0, 0>>>>],
     [k |-> "BoolArray", v |-> <<TRUE, FALSE, TRUE>>],
     [k |-> "GuidArray", v |-> <<SampleGuid>>]>>

\* C12 (as claimed): a value of a supported kind encoded into the wire format and
\* then decoded from that (tag, bytes) pair comes back as the same tagged value.
RoundTrip ==
    \A n \in 1 .. Len(RoundTripValues) :
        LET val == RoundTripValues[n]
        IN  (Fetched /\ IsDecode /\ Consistent /\ last.pa.ty = TagOf(val.k)
                /\ last.fa.raw = Encode(val))
            => /\ last.res.st = "ok"
               /\ last.res.val.k = val.k
               /\ last.res.val.v = val.v

\* C13 (as claimed): a string decode returns the UTF-16LE code units of the raw
\* buffer without the trailing terminator: (byte length / 2) - 1 code units.
StringDropsTerminator ==
    (Fetched /\ IsDecode /\ Consistent /\ last.pa.ty = DEVPROP_TYPE_STRING
        /\ last.res.st = "ok")
    => /\ last.res.val.k = "String"
       /\ Len(last.res.val.v) = (last.pa.size \div 2) - 1
       /\ last.res.val.v = SubSeq(Units(last.fa.raw), 1, (last.pa.size \div 2) - 1)

\* C14 (as claimed): the decode of a DEVPROP_TYPE_BINARY property returns the
\* Binary variant holding exactly the bytes the fetch call wrote.
BinaryPassesThrough ==
    (Fetched /\ IsDecode /\ Consistent /\ last.pa.ty = DEVPROP_TYPE_BINARY)
    => last.res = Ok([k |-> "Binary", v |-> last.fa.raw])

\* the operation made its probe call and nothing after it
OnlyProbed == Len(last.trace) = 1 /\ last.trace[1].ev = "probe"

\* C15: in every variable-length query a zero-size probe that reports success
\* ends the operation in a fatal condition: nothing is allocated, no second OS
\* call is made, and neither a value nor an error is returned.
ProbeSuccessIsFatal ==
    (Done /\ last.pa.ret) => (last.res = Fatal /\ OnlyProbed)

\* C15 witness: the probe of a descriptor query reported success
ProbeSuccessIsFatalWitness ==
    /\ Done
    /\ last.op = "fetch_property_info"
    /\ last.pa.ret
    /\ last.res = Fatal

\* the probe failed with a code other than ERROR_INSUFFICIENT_BUFFER
ProbeFailedOtherwise ==
    Done /\ ~last.pa.ret /\ last.pa.err \in OtherErrors

\* C16: when the probe of fetch_property_info fails with a code other than
\* ERROR_INSUFFICIENT_BUFFER the operation returns that code as an error, makes
\* no descriptor and no further OS call; fetch_property on the same key returns
\* the same error, never Unsupported.
DescribeErrorIsReturned ==
    (ProbeFailedOtherwise /\ last.op \in {"fetch_property_info", "fetch_property"})
    => (last.res = Err(last.pa.err) /\ OnlyProbed)

\* C16 witness: a decode whose probe was refused
DescribeErrorIsReturnedWitness ==
    /\ ProbeFailedOtherwise
    /\ last.op = "fetch_property"
    /\ last.pa.err = ACCESS_DENIED
    /\ last.res = Err(ACCESS_DENIED)

\* the second (fetch) call was made and failed
FetchFailed == Done /\ ~last.fa.ret /\ last.fa.err # "none"

\* C17: in every variable-length query, when the fetch call fails the operation
\* returns an error carrying that call's code: not a fatal condition, and no value.
FetchFailureIsReturned ==
    FetchFailed
    => /\ last.res = Err(last.fa.err)
       /\ last.trace[Len(last.trace)].ev = "fetch"

\* C17 witness: the fetch of an array property failed
FetchFailureIsReturnedWitness ==
    /\ FetchFailed
    /\ last.op = "fetch_property"
    /\ last.pa.ty = UINT32_ARRAY
    /\ last.fa.err = INVALID_DATA
    /\ last.res.st = "err"

PowerOfTwo(a) == \E k \in 0 .. 6 : a = 2 ^ k

\* C18: the region alloc_slice_with_align returns for a non-zero byte count n and a
\* power-of-two alignment has length exactly n (it returns none only when the
\* allocator has no memory), and for an alignment that is not a power of two the
\* call ends in a fatal condition and returns no region.
AllocatorContract ==
    (Done /\ last.op = "alloc_slice_with_align")
    => LET n == last.trace[1].size
           a == last.trace[1].align
       IN  /\ n > 0
           /\ last.res.st \in {"ok", "fatal"}
           /\ last.res.st = "ok" => (PowerOfTwo(a) /\ last.res.val.v = n)
           /\ ~PowerOfTwo(a) => last.res = Fatal

\* C18 witness: 17 bytes aligned to 16 were returned
AllocatorContractWitness ==
    /\ Done
    /\ last.op = "alloc_slice_with_align"
    /\ last.trace[1].size = 17
    /\ last.trace[1].align = 16
    /\ last.res.st = "ok"

IsPathOrKeys == last.op \in {"fetch_path", "devset_fetch_path", "fetch_property_keys"}

\* C19 (as claimed): in the path and key-list queries a probe that fails with a
\* code other than ERROR_INSUFFICIENT_BUFFER is fatal; the code is not returned.
ProbeErrorIsFatal ==
    (ProbeFailedOtherwise /\ IsPathOrKeys) => last.res = Fatal

\* C19 (amended): in the path and key-list queries a probe that fails with a code
\* other than ERROR_INSUFFICIENT_BUFFER returns that code to the caller as an
\* error, with no allocation and no second OS call; a probe that reports success
\* is fatal.
ProbeErrorIsReturned ==
    /\ (ProbeFailedOtherwise /\ IsPathOrKeys) => (last.res = Err(last.pa.err) /\ OnlyProbed)
    /\ (Done /\ IsPathOrKeys /\ last.pa.ret) => last.res = Fatal

\* C19 witness: the probe of the key list was refused and the code returned
ProbeErrorIsReturnedWitness ==
    /\ ProbeFailedOtherwise
    /\ last.op = "fetch_property_keys"
    /\ last.pa.err = INVALID_DATA
    /\ last.res = Err(INVALID_DATA)

\* the positions of the events of one kind in the trace of the last operation
EventsOf(ev) == {i \in 1 .. Len(last.trace) : last.trace[i].ev = ev}

IsSizedQuery ==
    last.op \in {"fetch_path", "devset_fetch_path", "fetch_property_keys",
                 "fetch_property_value"}

\* C22: every successful variable-length query makes exactly two OS query calls, in
\* this order: a probe with a null buffer and size 0, then one fetch with the
\* allocated buffer and its size, the buffer being allocated between the two; an
\* operation that returns a probe-phase error makes exactly one OS call. (Every
\* call of a query is made on the handle and the record of its receiver.)
ProtocolOrdering ==
    /\ (Done /\ IsSizedQuery /\ last.res.st = "ok") =>
            /\ Len(last.trace) = 3
            /\ last.trace[1].ev = "probe"
            /\ last.trace[1].buf = -1
            /\ last.trace[1].size = 0
            /\ last.trace[2].ev = "alloc"
            /\ last.trace[3].ev = "fetch"
            /\ last.trace[3].buf = last.trace[2].size
            /\ last.trace[3].size = last.trace[2].size
            /\ last.trace[3].fn = last.trace[1].fn
    /\ (Done /\ IsSizedQuery /\ last.res.st = "err" /\ last.fa = NoAnswer) => OnlyProbed
    /\ (Done /\ (IsSizedQuery \/ last.op \in {"fetch_property", "fetch_property_info"})) =>
            /\ last.trace[1].ev = "probe"
            /\ Cardinality(EventsOf("probe")) = 1
            /\ Cardinality(EventsOf("fetch")) <= 1
            /\ \A i \in EventsOf("alloc"), j \in EventsOf("fetch") : 1 < i /\ i < j

\* C22 witness: a key list of two keys was retrieved
ProtocolOrderingWitness ==
    /\ Done
    /\ last.op = "fetch_property_keys"
    /\ last.pa.size = 2
    /\ last.res.st = "ok"

IsPath == last.op \in {"fetch_path", "devset_fetch_path"}

\* C23 (as claimed): path retrieval strips exactly the header: with S the size the
\* probe reported and H the offset of the path field, the returned path is the
\* bytes [H, S) of the fetched buffer, in order: S - H bytes, its first character
\* included.
PathStripsHeader ==
    (Done /\ IsPath /\ last.res.st = "ok")
    => /\ Len(last.res.val.v) = last.pa.size - DEVICE_PATH_OFFSET
       /\ last.res.val.v = SubSeq(last.fa.raw, DEVICE_PATH_OFFSET + 1, last.pa.size)

\* C24: for the GUID tag with a 16-byte raw buffer, decode returns the GUID whose
\* four sub-fields are read in order from the buffer: the 32-bit field from bytes
\* 0..4, the first 16-bit field from bytes 4..6, the second from bytes 6..8, and
\* the 8-byte array from bytes 8..16 unchanged.
GuidFieldsInOrder ==
    (Fetched /\ IsDecode /\ Consistent /\ last.pa.ty = DEVPROP_TYPE_GUID
        /\ last.pa.size = 16)
    => /\ last.res.st = "ok"
       /\ last.res.val.k = "Guid"
       /\ last.res.val.v.Data1 = LittleEndian32(last.fa.raw)
       /\ last.res.val.v.Data2 = last.fa.raw[5] + 256 * last.fa.raw[6]
       /\ last.res.val.v.Data3 = last.fa.raw[7] + 256 * last.fa.raw[8]
       /\ last.res.val.v.Data4 = [i \in 1 .. 8 |-> last.fa.raw[8 + i]]

GuidFieldsInOrderWitness ==
    /\ Fetched
    /\ last.op = "fetch_property_value"
    /\ last.fa.ty = DEVPROP_TYPE_GUID
    /\ last.pa.size = 16
    /\ last.fa.raw = <<1, 2, 3, 4, 5, 6, 7, 8, 9, 10, 11, 12, 13, 14, 15, 128>>
    /\ last.res.st = "ok"
    /\ last.res.val.k = "Guid"
    /\ last.res.val.v.Data4 = <<9, 10, 11, 12, 13, 14, 15, 128>>

\* C25 (as claimed): for the scalar boolean tag, decode reads a 4-byte wire boolean
\* and returns Bool(true) exactly when that wire value equals the "true" sentinel
\* (all four bytes 0xFF), and Bool(false) for every other wire value.
ScalarBoolReadsFourBytes ==
    (Fetched /\ IsDecode /\ Consistent /\ last.pa.ty = DEVPROP_TYPE_BOOLEAN
        /\ last.pa.size = 4)
    => /\ last.res.st = "ok"
       /\ last.res.val.k = "Bool"
       /\ last.res.val.v = (last.fa.raw = <<255, 255, 255, 255>>)

\* C25 (amended): for the scalar boolean tag, decode reads a 1-byte wire boolean
\* and returns Bool(true) exactly when that byte equals the DEVPROP_TRUE sentinel
\* (0xFF, -1 as a signed byte), Bool(false) for every other byte; a descriptor of
\* size 4 makes fetch_property end in a fatal condition before any fetch.
ScalarBoolComparesSentinel ==
    /\ (Fetched /\ IsDecode /\ Consistent /\ last.pa.ty = DEVPROP_TYPE_BOOLEAN
          /\ last.pa.size = 1)
       => /\ last.res.st = "ok"
          /\ last.res.val.k = "Bool"
          /\ last.res.val.v = (last.fa.raw[1] = 255)
    /\ (Done /\ last.op = "fetch_property" /\ ~last.pa.ret
          /\ last.pa.err = INSUFFICIENT_BUFFER /\ last.pa.ty = DEVPROP_TYPE_BOOLEAN
          /\ last.pa.size = 4)
       => (last.res = Fatal /\ OnlyProbed)

ScalarBoolComparesSentinelWitness ==
    /\ Fetched
    /\ last.op = "fetch_property"
    /\ last.pa.ty = DEVPROP_TYPE_BOOLEAN
    /\ last.pa.size = 1
    /\ last.fa.raw = <<255>>
    /\ last.res = Ok([k |-> "Bool", v |-> TRUE])

\* C26 (as claimed): a Property descriptor is single-use: each descriptor produced
\* by one describe query is the source of at most one value-fetch OS call; once a
\* value fetch has been made from it, no step makes another one from it.
DescriptorSingleUse ==
    [][(descriptor.held /\ descriptor.fetched /\ descriptor'.held)
            => ~HasFetch(last'.trace)]_vars

\* the scalar tags of fetch_property that fetch a value
FetchedScalarTags == ScalarTags \ {DEVPROP_TYPE_EMPTY, DEVPROP_TYPE_NULL}

\* C28: Property::fetch for a scalar type of width w makes the value-fetch OS call
\* only when the descriptor's recorded size equals w; for any other recorded size,
\* smaller or larger, it ends in a fatal condition before any OS call, so the typed
\* decode path never produces a scalar from a buffer of another length than its
\* width.
ScalarSizeGuard ==
    /\ (Done /\ last.op = "Property_fetch") =>
            /\ HasFetch(last.trace) => last.pa.size = SizeOf(last.T)
            /\ last.pa.size # SizeOf(last.T) => (last.res = Fatal /\ last.trace = <<>>)
            /\ last.res.st = "ok" => Len(last.fa.raw) = SizeOf(last.T)
    /\ (Done /\ last.op = "fetch_property" /\ ~last.pa.ret
          /\ last.pa.err = INSUFFICIENT_BUFFER /\ last.pa.ty \in FetchedScalarTags) =>
            /\ HasFetch(last.trace) => last.pa.size = SizeOf(Arm(last.pa.ty).T)
            /\ last.pa.size # SizeOf(Arm(last.pa.ty).T) => (last.res = Fatal /\ OnlyProbed)
            /\ last.res.st = "ok" => Len(last.fa.raw) = SizeOf(Arm(last.pa.ty).T)

\* C28 witness: fetch::<u32>() on a descriptor of size 8
ScalarSizeGuardWitness ==
    /\ Done
    /\ last.op = "Property_fetch"
    /\ last.T = "u32"
    /\ last.pa.size = 8
    /\ last.res = Fatal
    /\ last.trace = <<>>

\* the tags whose arm of fetch_property goes through Property::fetch_array
FetchedArrayTags == ArrayTags \cup {DEVPROP_TYPE_BINARY, DEVPROP_TYPE_STRING}

\* C29: for a descriptor with an array, binary or string tag whose recorded size is
\* 0, the typed decode path (fetch_property through Property::fetch_array) ends in a
\* fatal condition before any allocation or value-fetch OS call; it never returns
\* an empty array, empty binary or empty string.
ZeroSizeArrayGuard ==
    /\ (Done /\ last.op = "fetch_property" /\ ~last.pa.ret
          /\ last.pa.err = INSUFFICIENT_BUFFER /\ last.pa.ty \in FetchedArrayTags
          /\ last.pa.size = 0)
       => (last.res = Fatal /\ OnlyProbed)
    /\ (Done /\ last.op = "Property_fetch_array" /\ last.pa.size = 0)
       => (last.res = Fatal /\ last.trace = <<>>)

\* C29 witness: the probe reported a string of size 0
ZeroSizeArrayGuardWitness ==
    /\ Done
    /\ last.op = "fetch_property"
    /\ last.pa.err = INSUFFICIENT_BUFFER
    /\ last.pa.ty = DEVPROP_TYPE_STRING
    /\ last.pa.size = 0
    /\ last.res = Fatal

\* the tags fetch_property decodes without a value: empty, null, and every tag
\* outside the table
ValuelessTags == {DEVPROP_TYPE_EMPTY, DEVPROP_TYPE_NULL} \cup ForeignTags

\* what fetch_property returns for a valueless tag, as a function of the tag alone
ValuelessResult(tag) ==
    IF tag = DEVPROP_TYPE_EMPTY THEN Ok([k |-> "Empty", v |-> 0])
    ELSE IF tag = DEVPROP_TYPE_NULL THEN Ok([k |-> "Null", v |-> 0])
    ELSE Ok([k |-> "Unsupported", v |-> tag])

\* C30: when the descriptor's tag is empty, null or any tag outside the decode
\* table, fetch_property makes exactly one OS call in total (the describe probe)
\* and no value-fetch call, and its result depends only on the tag, not on the
\* descriptor's recorded size.
NoFetchWithoutDecodableTag ==
    (Done /\ last.op = "fetch_property" /\ ~last.pa.ret
        /\ last.pa.err = INSUFFICIENT_BUFFER /\ last.pa.ty \in ValuelessTags)
    => /\ OnlyProbed
       /\ ~HasFetch(last.trace)
       /\ last.res = ValuelessResult(last.pa.ty)

\* C30 witness: a descriptor of a tag outside the table with a size above 0
NoFetchWithoutDecodableTagWitness ==
    /\ Done
    /\ last.op = "fetch_property"
    /\ last.pa.err = INSUFFICIENT_BUFFER
    /\ last.pa.ty = DEVPROP_TYPE_FILETIME
    /\ last.pa.size = 8
    /\ last.res = Ok([k |-> "Unsupported", v |-> DEVPROP_TYPE_FILETIME])

====
